---- MODULE Spec2Model ----
(***************************************************************************)
(* A model of the function bug reducer of utils/bug_reducer and of the     *)
(* build graph BuildDAG of utils/swift_build_support (build_dag.py, in its  *)
(* own section near the end). Of the bug reducer:                          *)
(*   - ReduceMiscompilingFunctions.run_test / _test_funclist and the       *)
(*     content-hash naming of the scratch files (func_bug_reducer.py),     *)
(*   - function_bug_reducer's list of functions and final report, and      *)
(*     the driver invoke_function_bug_reducer (func_bug_reducer.py),       *)
(*   - the invokers of sil-opt, sil-func-extractor, sil-nm, sil-llvm-gen   *)
(*     and SwiftOptCompileInvoker (swift_tools.py),                        *)
(*   - call_fingerprint (subprocess_utils.py),                             *)
(*   - the list reduction loop ListReducer.reduce_list, whose source       *)
(*     (list_reducer.py) is not part of the tree and is modelled from the  *)
(*     design document, section 4.1.                                       *)
(*                                                                         *)
(* Function names are byte strings, modelled as sequences of bytes.        *)
(* A digest (md5, sha256) is modelled as an injective wrapping of the      *)
(* bytes it was fed: what the model keeps of it is which bytes go in.      *)
(***************************************************************************)
EXTENDS Integers, Sequences, FiniteSets, TLC

\* ------------------------------------------------------------- bounds
MaxNameLen == 3
MaxLen == 3
MaxFailures == 1
MaxOut == 1
MaxEdges == 3

\* ------------------------------------------------------------ helpers
MinUnbounded(a, b) == a

Min(a, b) == IF a < b THEN a ELSE b
Max(a, b) == IF a > b THEN a ELSE b

\* Function names: "a", "aa", ... (1 is the byte of "a"). Different lists of
\* such names can spell the same bytes, as ["a", "aa"] and ["aa", "a"] do.
Names == {[i \in 1..n |-> 1] : n \in 1..MaxNameLen}
\* The symbols of a module are distinct: a list names no function twice.
Lists == {l \in UNION {[1..n -> Names] : n \in 0..MaxLen} :
            \A i, j \in DOMAIN l : l[i] = l[j] => i = j}

\* f with f[k] set to v, k added to its domain when new (a dict store, a
\* file written under a path).
Store(f, k, v) == [x \in DOMAIN f \cup {k} |-> IF x = k THEN v ELSE f[x]]

\* The bytes of "\n", " ", "F" and "G" (sil-nm prints one "<kind> <name>\n"
\* per symbol; G stands for the kinds that are not F).
NEWLINE == 10
SPACE == 32
KIND_F == 70
KIND_G == 71

\* str.split(sep).
RECURSIVE split(_, _)
split(str, sep) ==
    LET at == {i \in DOMAIN str : str[i] = sep}
    IN  IF at = {} THEN <<str>>
        ELSE LET i == CHOOSE k \in at : \A j \in at : k <= j
             IN  <<SubSeq(str, 1, i - 1)>> \o split(SubSeq(str, i + 1, Len(str)), sep)

\* The lines of a text in which every line ends with "\n":
\* output.split("\n")[:-1].
OutputLines(output) ==
    SubSeq(split(output, NEWLINE), 1, Len(split(output, NEWLINE)) - 1)

TESTRESULT_KEEPPREFIX == "KeepPrefix"
TESTRESULT_KEEPSUFFIX == "KeepSuffix"
TESTRESULT_NOFAILURE == "NoFailure"

\* ------------------------------------------------- content-hash naming
\* m.update(f) for f in funcs: the digest is fed the elements' bytes one
\* after the other, with nothing between them.
RECURSIVE HashInput(_)
HashInput(funcs) ==
    IF funcs = <<>> THEN <<>> ELSE Head(funcs) \o HashInput(Tail(funcs))

hexdigest(bytes) == [digest |-> bytes]

get_funclist_hash(funcs) == hexdigest(HashInput(funcs))

get_output_filename_stems_same(funclist_hash) ==
    << <<funclist_hash, "">>, <<funclist_hash, "">> >>

\* (filename_stem, filename_stem + '_invert')
get_output_filename_stems(funclist_hash) ==
    << <<funclist_hash, "">>, <<funclist_hash, "_invert">> >>

\* work_dir/<input stem>_<suffix>.sib
get_suffixed_filename(suffix) == <<"input_", suffix, ".sib">>

\* work_dir/func_list_<hash>
FunclistPath(funclist_hash) == <<"func_list_", funclist_hash>>

\* for f in funcs: funclist_file.write(f + '\n')
RECURSIVE FunclistText(_)
FunclistText(funcs) ==
    IF funcs = <<>> THEN <<>>
    ELSE Head(funcs) \o <<NEWLINE>> \o FunclistText(Tail(funcs))

\* The names sil-func-extractor reads from a -func-file, one per line.
ReadFunclist(text) == OutputLines(text)

\* ---------------------------------------------------------- partitions
\* The i-th of n contiguous chunks of t, and what is left of t without it.
ChunkLo(t, n, i) == ((i - 1) * Len(t)) \div n + 1
ChunkHi(t, n, i) == (i * Len(t)) \div n
Chunk(t, n, i) == SubSeq(t, ChunkLo(t, n, i), ChunkHi(t, n, i))
Complement(t, n, i) ==
    SubSeq(t, 1, ChunkLo(t, n, i) - 1) \o SubSeq(t, ChunkHi(t, n, i) + 1, Len(t))

\* ---------------------------------------------------------- fingerprint
ExitCodes == {0, 1, 2}
Bytes == {1, 2}
Outputs == UNION {[1..n -> Bytes] : n \in 0..MaxOut}

\* h.update("0" or "1"); h.update(stdoutdata); h.update(stderrdata).
\* 48 and 49 are the bytes of "0" and "1"; no output byte of the model is
\* one of them, which only makes a collision harder to miss.
FingerprintInputNoExitByte(exit_code, stdoutdata, stderrdata) ==
    stdoutdata \o stderrdata

FingerprintInputExactCode(exit_code, stdoutdata, stderrdata) ==
    <<48 + exit_code>> \o stdoutdata \o stderrdata

FingerprintInput(exit_code, stdoutdata, stderrdata) ==
    <<IF exit_code = 0 THEN 48 ELSE 49>> \o stdoutdata \o stderrdata

call_fingerprint(exit_code, stdoutdata, stderrdata) ==
    [exit_code |-> exit_code,
     fingerprint |-> hexdigest(FingerprintInput(exit_code, stdoutdata, stderrdata))]

NoRun == [ran |-> FALSE, exit_code |-> 0, stdout |-> <<>>, stderr |-> <<>>,
          result |-> [exit_code |-> 0, fingerprint |-> hexdigest(<<>>)]]

\* ------------------------------------------------------------- state
VARIABLES
    functions,      \* the list handed to the reducer
    mode,           \* "ddmin" (increasing granularity) or "twoway" (halves only)
    target,         \* ListReducer.target_list
    granularity,    \* number of chunks of the current round
    phase,          \* "chunks", "complements" or "exhausted" (round without success)
    idx,            \* the chunk the round is at
    pc,             \* where control is
    prefix,         \* run_test's arguments
    suffix,
    funcs,          \* _test_funclist's argument
    leg,            \* which of run_test's two tests is running
    outcome,        \* run_test's return value (result, prefix, suffix)
    funclist_files, \* work_dir: path -> the funclist written there
    artifacts,      \* path -> the extraction the current _test_funclist call
                    \* has left there; a path a failed run wrote nothing or
                    \* something else to, or left as it was, is not in it
    verdict,        \* list -> what the tester answers on its two extracted halves
    trace,          \* what the current _test_funclist call has done, in order
    legs,           \* the tests the current run_test call has started, in order,
                    \* each with what _test_funclist returned ("yes", "no")
    fatal,          \* the RuntimeError raised, "none" before
    nfail,          \* extractor runs that exited nonzero so far
    reports,        \* what _test_funclist has returned so far: (list, answer)
    report,         \* the lines function_bug_reducer has printed after the reduction
    runA,           \* two process runs through call_fingerprint
    runB,
    tools_present,  \* the tools that exist in swift_build_dir/bin
    files_present,  \* the files that exist
    tpc,            \* where control is in the driver or in an invoker
    launched,       \* the external processes launched so far, in order
    raised,         \* the exception that left the driver or invoker, "none" before
    run_result,     \* the RunResult returned last, NoResult before
    nm_output,      \* what sil-nm printed
    symbols,        \* what get_symbols has yielded
    dependencyMap,  \* BuildDAG.dependencyMap: node -> the nodes it depends on
    worklist,       \* produce_schedule's locals
    visitedNodes,
    po_ordered_nodes,
    rpo_ordered_nodes,
    node_to_rpot_map,
    dpc,            \* where control is in the user of the BuildDAG
    dag_raised      \* the exception that left produce_schedule, "none" before

vars == <<functions, mode, target, granularity, phase, idx, pc, prefix, suffix,
          funcs, leg, outcome, funclist_files, artifacts, verdict, trace, legs,
          fatal, nfail, runA, runB, report, reports, tools_present,
          files_present, tpc, launched, raised, run_result, nm_output, symbols,
          dependencyMap, worklist, visitedNodes, po_ordered_nodes,
          rpo_ordered_nodes, node_to_rpot_map, dpc, dag_raised>>

toolVars == <<tools_present, files_present, tpc, launched, raised, run_result,
              nm_output, symbols>>

dagVars == <<dependencyMap, worklist, visitedNodes, po_ordered_nodes,
             rpo_ordered_nodes, node_to_rpot_map, dpc, dag_raised>>

reducerVars == <<functions, mode, target, granularity, phase, idx, pc, prefix,
                 suffix, funcs, leg, outcome, funclist_files, artifacts, verdict,
                 trace, legs, fatal, nfail, report, reports>>

NoOutcome == <<"none", <<>>, <<>>>>
EmptyMap == [x \in {} |-> x]

\* What the extractor leaves when it exits 0.
Extracted(fs, invert) == [funcs |-> fs, invert |-> invert]

InitReducer(fs, m) ==
    /\ functions = fs
    /\ mode = m
    /\ target = fs
    /\ granularity = 2
    /\ phase = "chunks"
    /\ idx = 1
    /\ pc = "engine"
    /\ prefix = <<>>
    /\ suffix = <<>>
    /\ funcs = <<>>
    /\ leg = "none"
    /\ outcome = NoOutcome
    /\ funclist_files = EmptyMap
    /\ artifacts = EmptyMap
    /\ trace = <<>>
    /\ legs = <<>>
    /\ fatal = "none"
    /\ nfail = 0
    /\ report = <<>>
    /\ reports = {}

\* No driver or invoker is running.
NoResult == <<>>

IdleTools ==
    /\ tools_present = {}
    /\ files_present = {}
    /\ tpc = "idle"
    /\ launched = <<>>
    /\ raised = "none"
    /\ run_result = NoResult
    /\ nm_output = <<>>
    /\ symbols = <<>>

\* No BuildDAG is in use.
NoIterator == [items |-> <<>>, next |-> 1]

IdleDag ==
    /\ dependencyMap = EmptyMap
    /\ worklist = <<>>
    /\ visitedNodes = {}
    /\ po_ordered_nodes = <<>>
    /\ rpo_ordered_nodes = NoIterator
    /\ node_to_rpot_map = EmptyMap
    /\ dpc = "idle"
    /\ dag_raised = "none"

Init ==
    /\ \E fs \in Lists, m \in {"ddmin", "twoway"} : InitReducer(fs, m)
    \* The driver reduces only an input whose base case fails.
    /\ verdict = [l \in {functions} |-> TRUE]
    /\ runA = NoRun
    /\ runB = NoRun
    /\ IdleTools
    /\ IdleDag

\* -------------------------------------------- the reduction loop (4.1)
NumChunks == Min(granularity, Len(target))
\* A candidate is a nonempty proper sublist: fewer than two chunks give none.
HasCandidates == NumChunks >= 2
RoundOver == phase = "exhausted" \/ ~HasCandidates

Call(p, s) ==
    /\ prefix' = p
    /\ suffix' = s
    /\ outcome' = NoOutcome
    /\ legs' = <<>>
    /\ trace' = <<>>
    /\ leg' = "none"
    /\ pc' = "run_test"

\* Step 2, chunks: the chunk alone, as the prefix of an empty suffix.
EngineTestChunk ==
    /\ pc = "engine" /\ mode = "ddmin" /\ phase = "chunks" /\ HasCandidates
    /\ Call(Chunk(target, NumChunks, idx), <<>>)
    /\ UNCHANGED <<functions, mode, target, granularity, phase, idx, funcs,
                   funclist_files, artifacts, verdict, fatal, nfail, runA, runB, report, reports, toolVars, dagVars>>

\* Step 2, complements: everything but the chunk, as the suffix of an empty prefix.
EngineTestComplement ==
    /\ pc = "engine" /\ mode = "ddmin" /\ phase = "complements" /\ HasCandidates
    /\ Call(<<>>, Complement(target, NumChunks, idx))
    /\ UNCHANGED <<functions, mode, target, granularity, phase, idx, funcs,
                   funclist_files, artifacts, verdict, fatal, nfail, runA, runB, report, reports, toolVars, dagVars>>

\* The 2-way mode: the two halves in one call.
EngineTestHalves ==
    /\ pc = "engine" /\ mode = "twoway" /\ phase = "chunks" /\ HasCandidates
    /\ Call(Chunk(target, 2, 1), Chunk(target, 2, 2))
    /\ UNCHANGED <<functions, mode, target, granularity, phase, idx, funcs,
                   funclist_files, artifacts, verdict, fatal, nfail, runA, runB, report, reports, toolVars, dagVars>>

\* Steps 3 and 4: the part the oracle reports as still failing is the new
\* target. A chunk resets the granularity, a complement lowers it by one.
EngineKeepPrefix ==
    /\ pc = "returned" /\ outcome[1] = TESTRESULT_KEEPPREFIX
    /\ target' = outcome[2]
    /\ granularity' = 2
    /\ phase' = "chunks" /\ idx' = 1 /\ pc' = "engine"
    /\ UNCHANGED <<functions, mode, prefix, suffix, funcs, leg, outcome,
                   funclist_files, artifacts, verdict, trace, legs, fatal,
                   nfail, runA, runB, report, reports, toolVars, dagVars>>

EngineKeepSuffix ==
    /\ pc = "returned" /\ outcome[1] = TESTRESULT_KEEPSUFFIX
    /\ target' = outcome[3]
    /\ granularity' = IF mode = "ddmin" THEN Max(granularity - 1, 2) ELSE 2
    /\ phase' = "chunks" /\ idx' = 1 /\ pc' = "engine"
    /\ UNCHANGED <<functions, mode, prefix, suffix, funcs, leg, outcome,
                   funclist_files, artifacts, verdict, trace, legs, fatal,
                   nfail, runA, runB, report, reports, toolVars, dagVars>>

\* Nothing reproduced: the next chunk, then the complements, then step 5.
EngineNoFailure ==
    /\ pc = "returned" /\ outcome[1] = TESTRESULT_NOFAILURE
    /\ IF mode = "twoway" THEN phase' = "exhausted" /\ idx' = idx
       ELSE IF idx < NumChunks THEN phase' = phase /\ idx' = idx + 1
       ELSE IF phase = "chunks" THEN phase' = "complements" /\ idx' = 1
       ELSE phase' = "exhausted" /\ idx' = idx
    /\ pc' = "engine"
    /\ UNCHANGED <<functions, mode, target, granularity, prefix, suffix, funcs,
                   leg, outcome, funclist_files, artifacts, verdict, trace, legs,
                   fatal, nfail, runA, runB, report, reports, toolVars, dagVars>>

\* Step 5: double the granularity, bounded by len(target) ...
EngineRefine ==
    /\ pc = "engine" /\ mode = "ddmin" /\ RoundOver
    /\ granularity < Len(target)
    /\ granularity' = Min(2 * granularity, Len(target))
    /\ phase' = "chunks" /\ idx' = 1
    /\ UNCHANGED <<functions, mode, target, pc, prefix, suffix, funcs, leg,
                   outcome, funclist_files, artifacts, verdict, trace, legs,
                   fatal, nfail, runA, runB, report, reports, toolVars, dagVars>>

\* ... or terminate. The 2-way mode never refines.
EngineFinish ==
    /\ pc = "engine" /\ RoundOver
    /\ mode = "ddmin" => granularity >= Len(target)
    /\ pc' = "done"
    /\ UNCHANGED <<functions, mode, target, granularity, phase, idx, prefix,
                   suffix, funcs, leg, outcome, funclist_files, artifacts,
                   verdict, trace, legs, fatal, nfail, runA, runB, report, reports, toolVars, dagVars>>

\* ------------------------------------------------------------ run_test
\* Where run_test goes once _test_funclist has answered for leg l:
\*   if len(suffix) > 0 and self._test_funclist(suffix): return KEEPSUFFIX
\*   if len(prefix) > 0 and self._test_funclist(prefix): return KEEPPREFIX
\*   return NOFAILURE
AfterTestPrefixWins(l, reproduced) ==
    IF reproduced THEN [pc |-> "returned", result |-> TESTRESULT_KEEPPREFIX]
    ELSE IF l = "suffix" THEN [pc |-> "rt_prefix", result |-> "none"]
    ELSE [pc |-> "returned", result |-> TESTRESULT_NOFAILURE]

AfterTest(l, reproduced) ==
    IF l = "suffix"
    THEN IF reproduced
         THEN [pc |-> "returned", result |-> TESTRESULT_KEEPSUFFIX]
         ELSE [pc |-> "rt_prefix", result |-> "none"]
    ELSE IF reproduced
         THEN [pc |-> "returned", result |-> TESTRESULT_KEEPPREFIX]
         ELSE [pc |-> "returned", result |-> TESTRESULT_NOFAILURE]

\* Where control goes when a RuntimeError is raised under run_test: run_test
\* has no handler, the exception leaves it and the reduction.
AfterRaiseSwallowed(l) == AfterTest(l, FALSE)

AfterRaise(l) == [pc |-> "error", result |-> "none"]

\* The guards of the two legs.
SuffixLegRunsUnguarded(s) == TRUE

SuffixLegRuns(s) == Len(s) > 0

PrefixLegRuns(p) == Len(p) > 0

\* The order of the legs: the one run_test starts with.
FirstLegPrefix == "prefix"

FirstLeg == "suffix"

OtherLeg(l) == IF l = "suffix" THEN "prefix" ELSE "suffix"
LegList(l) == IF l = "suffix" THEN suffix ELSE prefix
LegRuns(l) == IF l = "suffix" THEN SuffixLegRuns(suffix) ELSE PrefixLegRuns(prefix)

\* return (result, prefix, suffix)
ReturnWholeList(result) ==
    /\ outcome' = <<result, prefix \o suffix, prefix \o suffix>>
    /\ pc' = "returned"

Return(result) ==
    /\ outcome' = <<result, prefix, suffix>>
    /\ pc' = "returned"

Goto(next) ==
    IF next.pc = "returned" THEN Return(next.result)
    ELSE pc' = next.pc /\ outcome' = outcome

EnterTestFunclist(l) ==
    /\ funcs' = LegList(l)
    /\ leg' = l
    /\ legs' = Append(legs, [leg |-> l, reproduced |-> "pending"])
    /\ trace' = <<>>
    /\ artifacts' = EmptyMap
    /\ pc' = "tf_write"
    /\ outcome' = outcome

\* Line 22: the suffix is tested when it is not empty.
RunTestSuffix ==
    /\ pc = "run_test"
    /\ IF LegRuns(FirstLeg)
       THEN EnterTestFunclist(FirstLeg)
       ELSE /\ pc' = "rt_prefix" /\ outcome' = outcome
            /\ UNCHANGED <<funcs, leg, legs, trace, artifacts>>
    /\ UNCHANGED <<functions, mode, target, granularity, phase, idx, prefix,
                   suffix, funclist_files, verdict, fatal, nfail, runA, runB, report, reports, toolVars, dagVars>>

\* Lines 24-26: the prefix is tested when the suffix did not reproduce and
\* it is not empty; with neither, NOFAILURE.
RunTestPrefix ==
    /\ pc = "rt_prefix"
    /\ IF LegRuns(OtherLeg(FirstLeg))
       THEN EnterTestFunclist(OtherLeg(FirstLeg))
       ELSE /\ Return(TESTRESULT_NOFAILURE)
            /\ UNCHANGED <<funcs, leg, legs, trace, artifacts>>
    /\ UNCHANGED <<functions, mode, target, granularity, phase, idx, prefix,
                   suffix, funclist_files, verdict, fatal, nfail, runA, runB, report, reports, toolVars, dagVars>>

\* ------------------------------------------------------ _test_funclist
Event(op, exit_code, args) == [op |-> op, exit |-> exit_code, args |-> args]

funclist_path == FunclistPath(get_funclist_hash(funcs))
outfile == get_suffixed_filename(get_output_filename_stems(get_funclist_hash(funcs))[1])
outfile_invert == get_suffixed_filename(get_output_filename_stems(get_funclist_hash(funcs))[2])

\* Lines 34-39: the funclist file, one element per line.
TfWrite ==
    /\ pc = "tf_write"
    /\ funclist_files' = Store(funclist_files, funclist_path, FunclistText(funcs))
    /\ trace' = Append(trace, Event("write", 0, <<funclist_path>>))
    /\ pc' = "tf_extract"
    /\ UNCHANGED <<functions, mode, target, granularity, phase, idx, prefix,
                   suffix, funcs, leg, outcome, artifacts, verdict, legs, fatal,
                   nfail, runA, runB, report, reports, toolVars, dagVars>>

\* SILFuncExtractorInvoker.invoke_with_functions -> _invoke -> _cmdline, br_call.
\* _cmdline raises when the input file, the funclist file or the tool is not
\* there; otherwise the tool runs and br_call's result is returned. A run that
\* exits 0 leaves the extraction of the listed functions (all but them, with
\* -invert); one that exits nonzero leaves no extraction of them.
RaiseFatal(cause) ==
    /\ fatal' = cause
    /\ Goto(AfterRaise(leg))
    /\ UNCHANGED <<artifacts, trace, nfail>>

InvokeWithFunctions(path, output_filename, invert, op, next) ==
    \/ \E cause \in {"tool_missing", "input_missing"} : RaiseFatal(cause)
    \/ /\ path \notin DOMAIN funclist_files
       /\ RaiseFatal("funclist_missing")
    \/ /\ path \in DOMAIN funclist_files
       /\ \E exit_code \in {0, 1} :
            /\ \/ /\ exit_code = 0
                  /\ artifacts' = Store(artifacts, output_filename,
                                        Extracted(ReadFunclist(funclist_files[path]), invert))
                  /\ nfail' = nfail
               \/ /\ exit_code # 0 /\ nfail < MaxFailures
                  /\ artifacts' = artifacts
                  /\ nfail' = nfail + 1
            /\ trace' = Append(trace,
                               Event(op, call_fingerprint(exit_code, <<>>, <<>>).exit_code,
                                     <<path, output_filename, invert>>))
       /\ fatal' = fatal
       /\ pc' = next
       /\ outcome' = outcome

\* Line 50.
TfExtract ==
    /\ pc = "tf_extract"
    /\ InvokeWithFunctions(funclist_path, outfile, FALSE, "extract", "tf_invert")
    /\ UNCHANGED <<functions, mode, target, granularity, phase, idx, prefix,
                   suffix, funcs, leg, funclist_files, verdict, legs, runA, runB, report, reports, toolVars, dagVars>>

\* Lines 51-52.
TfExtractInvert ==
    /\ pc = "tf_invert"
    /\ InvokeWithFunctions(funclist_path, outfile_invert, TRUE, "invert", "tf_tester")
    /\ UNCHANGED <<functions, mode, target, granularity, phase, idx, prefix,
                   suffix, funcs, leg, funclist_files, verdict, legs, runA, runB, report, reports, toolVars, dagVars>>

\* The two files the tester is given hold the two halves of one list.
Faithful(out, inv) ==
    /\ out \in DOMAIN artifacts /\ inv \in DOMAIN artifacts
    /\ ~artifacts[out].invert /\ artifacts[inv].invert
    /\ artifacts[out].funcs = artifacts[inv].funcs

Answer(reproduced) ==
    /\ legs' = [legs EXCEPT ![Len(legs)].reproduced =
                                IF reproduced THEN "yes" ELSE "no"]
    /\ reports' = reports \cup {<<funcs, reproduced>>}
    /\ Goto(AfterTest(leg, reproduced))
    /\ fatal' = fatal

\* Lines 53-54: return self.tester(outfile, outfile_stem, outfile_invert,
\* outfile_invert_stem). The tester is the caller's: on the two halves of a list
\* it answers that list's verdict, the same each time; on anything else its
\* answer is any, or it raises.
TfTester ==
    /\ pc = "tf_tester"
    /\ \E truth \in BOOLEAN :
         /\ funcs \in DOMAIN verdict => truth = verdict[funcs]
         /\ verdict' = Store(verdict, funcs, truth)
    /\ trace' = Append(trace, Event("tester", 0, <<outfile, outfile_invert>>))
    /\ \/ /\ Faithful(outfile, outfile_invert)
          /\ Answer(verdict'[artifacts[outfile].funcs])
       \/ /\ ~Faithful(outfile, outfile_invert)
          /\ \E answer \in BOOLEAN : Answer(answer)
       \/ /\ ~Faithful(outfile, outfile_invert)
          /\ fatal' = "tester"
          /\ legs' = legs
          /\ reports' = reports
          /\ Goto(AfterRaise(leg))
    /\ UNCHANGED <<functions, mode, target, granularity, phase, idx, prefix,
                   suffix, funcs, leg, funclist_files, artifacts, nfail,
                   runA, runB, report, toolVars, dagVars>>

\* ------------------------------------------------ function_bug_reducer
\* What reduce_list returns: whether it found a smaller list that still
\* fails. The target strictly shrinks with every list it finds.
ReduceListFound == target # functions

Line(text, arg) == [text |-> text, arg |-> arg]

\* args.pass_list, the pass list the base case was run with.
pass_list == <<"-pass">>

\* The tester handed to function_bug_reducer: its class is not part of the
\* tree. It gives the command line that runs the pipeline with a pass list on
\* the reduced input, and names the file that is the final reproducer.
TesterCmdline(passes) == <<"sil-opt", "final", "-o", "-">> \o passes
TesterResult == <<"final">>

\* Lines 77-81.
FinalReport ==
    <<Line("*** Successfully Reduced file!", <<>>),
      Line("*** Final File: %s", TesterResult),
      Line("*** Final Functions: %s", target),
      Line("*** Repro command line: %s", TesterCmdline(pass_list))>>

FailureMessageNever(found) == <<>>

\* Lines 75-76: if not r.reduce_list(): print("Failed to find ...").
FailureMessage(found) ==
    IF ~found THEN <<Line("Failed to find miscompiling pass list!", <<>>)>>
    ELSE <<>>

ReportLinesOnSuccessOnly(found) ==
    IF found THEN FinalReport ELSE FailureMessage(found)

\* Lines 75-81: what is printed, in order.
ReportLines(found) == FailureMessage(found) \o FinalReport

\* Lines 75-81, once reduce_list has returned.
FunctionBugReducerReport ==
    /\ pc = "done"
    /\ report' = ReportLines(ReduceListFound)
    /\ pc' = "reported"
    /\ UNCHANGED <<functions, mode, target, granularity, phase, idx, prefix,
                   suffix, funcs, leg, outcome, funclist_files, artifacts,
                   verdict, trace, legs, fatal, nfail, reports, runA, runB, toolVars, dagVars>>

\* ------------------------------------------------------------ the runs
ReducerNext ==
    \/ EngineTestChunk
    \/ EngineTestComplement
    \/ EngineTestHalves
    \/ EngineKeepPrefix
    \/ EngineKeepSuffix
    \/ EngineNoFailure
    \/ EngineRefine
    \/ EngineFinish
    \/ RunTestSuffix
    \/ RunTestPrefix
    \/ TfWrite
    \/ TfExtract
    \/ TfExtractInvert
    \/ TfTester
    \/ FunctionBugReducerReport

Next == ReducerNext

Spec == Init /\ [][Next]_vars

\* --------------------------------------------- runs through call_fingerprint
\* p.communicate(), p.wait() and the digest, for a process with this exit code
\* and these outputs.
Run(exit_code, stdoutdata, stderrdata) ==
    [ran |-> TRUE, exit_code |-> exit_code, stdout |-> stdoutdata,
     stderr |-> stderrdata,
     result |-> call_fingerprint(exit_code, stdoutdata, stderrdata)]

FingerprintRunA ==
    /\ \E c \in ExitCodes, o \in Outputs, e \in Outputs : runA' = Run(c, o, e)
    /\ UNCHANGED <<reducerVars, runB, toolVars, dagVars>>

FingerprintRunB ==
    /\ \E c \in ExitCodes, o \in Outputs, e \in Outputs : runB' = Run(c, o, e)
    /\ UNCHANGED <<reducerVars, dagVars, runA, toolVars, dagVars>>

InitFingerprint ==
    /\ InitReducer(<<>>, "ddmin")
    /\ verdict = EmptyMap
    /\ runA = NoRun
    /\ runB = NoRun
    /\ IdleTools
    /\ IdleDag

NextFingerprint == FingerprintRunA \/ FingerprintRunB

SpecFingerprint == InitFingerprint /\ [][NextFingerprint]_vars

\* The reduction under the scheduling of a single-threaded program: it takes
\* its next step whenever it has one.
FairSpec == Spec /\ WF_vars(Next)

\* ------------------------------------------------------ swift_tools.py
\* The state of the reducer and of the fingerprint runs, before either.
IdleReducer ==
    /\ InitReducer(<<>>, "ddmin")
    /\ verdict = EmptyMap
    /\ runA = NoRun
    /\ runB = NoRun

Tools == {"sil-opt", "sil-func-extractor", "sil-nm", "sil-llvm-gen"}

\* Paths: args.input_file, config.work_dir and the files of the work dir.
input_file == <<"input", "", ".sil">>
work_dir == <<"bug_reducer", "", "">>
InitialFile == get_suffixed_filename("initial")
BaseCaseFile == get_suffixed_filename("base_case")

\* os.access(f, os.F_OK), os.access(path, os.F_OK).
sanity_check_skipped(f) == TRUE

sanity_check_file_exists(f) == f \in files_present

_get_tool(name) == name \in tools_present

FileMissing == "Error! Could not find file"
ToolMissing == "Error! tool does not exist"

Launch(tool, input, output, exit_code) ==
    [tool |-> tool, input |-> input, output |-> output, exit |-> exit_code]

\* raise: control leaves the driver or the invoker.
Raise(exception) ==
    /\ raised' = exception
    /\ tpc' = "error"
    /\ UNCHANGED <<launched, run_result, files_present>>

\* br_call with DRY_RUN off: the process is launched and its exit code and
\* fingerprint are returned. A process that exits 0 has written its output
\* file; one that does not may have or not.
br_call(tool, input, output, next) ==
    \E exit_code \in {0, 1}, written \in BOOLEAN :
        /\ exit_code = 0 => written
        /\ launched' = Append(launched, Launch(tool, input, output, exit_code))
        /\ run_result' = <<call_fingerprint(exit_code, <<>>, <<>>)>>
        /\ files_present' = IF written THEN files_present \cup {output}
                            ELSE files_present
        /\ raised' = raised
        /\ tpc' = next

\* SILOptInvoker._invoke: _cmdline looks the tool up (base_args), checks the
\* input file, and br_call launches sil-opt.
SILOptInvoke(input, output, next) ==
    IF ~_get_tool("sil-opt") THEN Raise(ToolMissing)
    ELSE IF ~sanity_check_file_exists(input) THEN Raise(FileMissing)
    ELSE br_call("sil-opt", input, output, next)

\* SILConstantInputToolInvoker.__init__: mkdir -p work_dir through
\* subprocess.check_call, which raises on a nonzero exit, then the check of
\* the input file.
ConstructInvoker(initial_input_file, next) ==
    \E exit_code \in {0, 1} :
        /\ launched' = Append(launched, Launch("mkdir", work_dir, work_dir, exit_code))
        /\ IF exit_code # 0
           THEN raised' = "CalledProcessError" /\ tpc' = "error"
           ELSE IF ~sanity_check_file_exists(initial_input_file)
           THEN raised' = FileMissing /\ tpc' = "error"
           ELSE raised' = raised /\ tpc' = next
        /\ UNCHANGED <<run_result, files_present>>

\* ----------------------------------------- invoke_function_bug_reducer
\* Line 94: SILOptInvoker(config, tools, input_file, extra_args), the base
\* constructor ...
DriverConstructSILOpt ==
    /\ tpc = "d_start"
    /\ ConstructInvoker(input_file, "d_initial")
    /\ UNCHANGED <<reducerVars, dagVars, runA, runB, tools_present, nm_output, symbols>>

\* ... and the initial *.sib: self._invoke(input_file, [], True,
\* self.input_file), whose result is dropped.
DriverInitialSib ==
    /\ tpc = "d_initial"
    /\ SILOptInvoke(input_file, InitialFile, "d_base")
    /\ UNCHANGED <<reducerVars, dagVars, runA, runB, tools_present, nm_output, symbols>>

\* Lines 99-100: the base case, the pass list on the initial *.sib.
DriverBaseCase ==
    /\ tpc = "d_base"
    /\ SILOptInvoke(InitialFile, BaseCaseFile, "d_check")
    /\ UNCHANGED <<reducerVars, dagVars, runA, runB, tools_present, nm_output, symbols>>

BaseCaseSucceededNever(r) == FALSE

\* Line 102: if result['exit_code'] == 0.
BaseCaseSucceeded(r) == r.exit_code = 0

\* Lines 102-104: nothing to do when the base case succeeds.
DriverCheckBase ==
    /\ tpc = "d_check"
    /\ tpc' = IF BaseCaseSucceeded(run_result[1]) THEN "returned" ELSE "d_extractor"
    /\ UNCHANGED <<reducerVars, dagVars, runA, runB, tools_present, files_present,
                   launched, raised, run_result, nm_output, symbols>>

\* Lines 106-108: SILFuncExtractorInvoker(config, tools, input_file).
DriverConstructExtractor ==
    /\ tpc = "d_extractor"
    /\ ConstructInvoker(input_file, "d_call")
    /\ UNCHANGED <<reducerVars, dagVars, runA, runB, tools_present, nm_output, symbols>>

\* Lines 110-111: the arguments of the call of function_bug_reducer are
\* evaluated first, and OptimizerTester(sil_opt_invoker, pass_list) names two
\* things the module does not define: a NameError, and function_bug_reducer
\* is not entered.
DriverCallReducer ==
    /\ tpc = "d_call"
    /\ raised' = "NameError"
    /\ tpc' = "error"
    /\ UNCHANGED <<reducerVars, dagVars, runA, runB, tools_present, files_present,
                   launched, run_result, nm_output, symbols>>

InitDriver ==
    /\ IdleReducer
    /\ IdleDag
    /\ tools_present \in SUBSET Tools
    /\ files_present \in SUBSET {input_file, InitialFile}
    /\ tpc = "d_start"
    /\ launched = <<>>
    /\ raised = "none"
    /\ run_result = NoResult
    /\ nm_output = <<>>
    /\ symbols = <<>>

NextDriver ==
    \/ DriverConstructSILOpt
    \/ DriverInitialSib
    \/ DriverBaseCase
    \/ DriverCheckBase
    \/ DriverConstructExtractor
    \/ DriverCallReducer

SpecDriver == InitDriver /\ [][NextDriver]_vars

\* ------------------------------ SwiftOptCompileInvoker.invoke_with_passlist
\* The arguments and self.run_script.
output_sib_filename == <<"out", "", ".sib">>
output_obj_filename == <<"out", "", ".o">>
run_script == <<"run", "", ".sh">>

OptimizerCrasher == "Optimizer Compile Time Crasher?!"
LLVMGenCrasher == "Swift LLVM Gen Compile Time Crasher?!"

\* SwiftLLVMGenInvoker._invoke: the tool (base_args), the input file, br_call.
LLVMGenInvoke(input, output, next) ==
    IF ~_get_tool("sil-llvm-gen") THEN Raise(ToolMissing)
    ELSE IF ~sanity_check_file_exists(input) THEN Raise(FileMissing)
    ELSE br_call("sil-llvm-gen", input, output, next)

SetupFailedNever(r) == FALSE

\* Lines 298 and 302: if result['exit_code'] != 0.
SetupFailed(r) == r.exit_code # 0

\* Line 297: self.sil_opt_invoker.invoke_with_passlist(passes, output_sib_filename).
CompileOptimize ==
    /\ tpc = "c_start"
    /\ SILOptInvoke(InitialFile, output_sib_filename, "c_check_opt")
    /\ UNCHANGED <<reducerVars, dagVars, runA, runB, tools_present, nm_output, symbols>>

\* Lines 298-299.
CompileCheckOptimizer ==
    /\ tpc = "c_check_opt"
    /\ IF SetupFailed(run_result[1]) THEN Raise(OptimizerCrasher)
       ELSE /\ tpc' = "c_llvm_gen"
            /\ UNCHANGED <<launched, raised, run_result, files_present>>
    /\ UNCHANGED <<reducerVars, dagVars, runA, runB, tools_present, nm_output, symbols>>

\* Line 300: SwiftLLVMGenInvoker(self.config, self.tools, output_sib_filename,
\* self.extra_args) ...
CompileConstructLLVMGen ==
    /\ tpc = "c_llvm_gen"
    /\ ConstructInvoker(output_sib_filename, "c_invoke")
    /\ UNCHANGED <<reducerVars, dagVars, runA, runB, tools_present, nm_output, symbols>>

\* ... .invoke(output_obj_filename).
CompileLLVMGen ==
    /\ tpc = "c_invoke"
    /\ LLVMGenInvoke(output_sib_filename, output_obj_filename, "c_check_llvm_gen")
    /\ UNCHANGED <<reducerVars, dagVars, runA, runB, tools_present, nm_output, symbols>>

\* Lines 302-303.
CompileCheckLLVMGen ==
    /\ tpc = "c_check_llvm_gen"
    /\ IF SetupFailed(run_result[1]) THEN Raise(LLVMGenCrasher)
       ELSE /\ tpc' = "c_run"
            /\ UNCHANGED <<launched, raised, run_result, files_present>>
    /\ UNCHANGED <<reducerVars, dagVars, runA, runB, tools_present, nm_output, symbols>>

\* Line 304: return br_call([self.run_script, output_obj_filename]). Nothing
\* checks the script first: Popen raises OSError when it is not there.
CompileRun ==
    /\ tpc = "c_run"
    /\ IF run_script \notin files_present THEN Raise("OSError")
       ELSE br_call("run_script", output_obj_filename, output_obj_filename, "returned")
    /\ UNCHANGED <<reducerVars, dagVars, runA, runB, tools_present, nm_output, symbols>>

InitCompile ==
    /\ IdleReducer
    /\ IdleDag
    /\ tools_present \in SUBSET Tools
    /\ files_present \in SUBSET {InitialFile, output_sib_filename, run_script}
    /\ tpc = "c_start"
    /\ launched = <<>>
    /\ raised = "none"
    /\ run_result = NoResult
    /\ nm_output = <<>>
    /\ symbols = <<>>

NextCompile ==
    \/ CompileOptimize
    \/ CompileCheckOptimizer
    \/ CompileConstructLLVMGen
    \/ CompileLLVMGen
    \/ CompileCheckLLVMGen
    \/ CompileRun

SpecCompile == InitCompile /\ [][NextCompile]_vars

\* ------------------------------------------- the invokers, one call each
\* The funclist file and the output of a call of invoke_with_functions.
a_funclist_path == <<"func_list_", "h", "">>
an_outfile == get_suffixed_filename("h")

\* SILFuncExtractorInvoker._invoke: _cmdline checks the input file and the
\* funclist file, then looks the tool up (base_args); br_call launches it.
FuncExtractorInvoke(funclist, output, next) ==
    IF ~sanity_check_file_exists(input_file) THEN Raise(FileMissing)
    ELSE IF ~sanity_check_file_exists(funclist) THEN Raise(FileMissing)
    ELSE IF ~_get_tool("sil-func-extractor") THEN Raise(ToolMissing)
    ELSE br_call("sil-func-extractor", funclist, output, next)

\* tuple(l.split(" ")) of each line of output.split("\n")[:-1].
ParseSymbols(output) ==
    [i \in DOMAIN OutputLines(output) |-> split(OutputLines(output)[i], SPACE)]

\* What sil-nm prints for a module with these symbols.
RECURSIVE NmPrint(_)
NmPrint(syms) ==
    IF syms = <<>> THEN <<>>
    ELSE Head(syms)[1] \o <<SPACE>> \o Head(syms)[2] \o <<NEWLINE>> \o NmPrint(Tail(syms))

\* The symbol tables of the modules: (kind, name) with distinct names.
SymbolTables ==
    {t \in UNION {[1..n -> {<<KIND_F>>, <<KIND_G>>} \X Names] : n \in 0..MaxLen} :
        \A i, j \in DOMAIN t : t[i][2] = t[j][2] => i = j}

\* SILOptInvoker.invoke_with_passlist.
InvokeSILOpt ==
    /\ tpc = "i_sil_opt"
    /\ SILOptInvoke(InitialFile, BaseCaseFile, "returned")
    /\ UNCHANGED <<reducerVars, dagVars, runA, runB, tools_present, nm_output, symbols>>

\* SILFuncExtractorInvoker.invoke_with_functions.
InvokeFuncExtractor ==
    /\ tpc = "i_extract"
    /\ FuncExtractorInvoke(a_funclist_path, an_outfile, "returned")
    /\ UNCHANGED <<reducerVars, dagVars, runA, runB, tools_present, nm_output, symbols>>

\* SwiftLLVMGenInvoker.invoke.
InvokeLLVMGen ==
    /\ tpc = "i_llvm_gen"
    /\ LLVMGenInvoke(output_sib_filename, output_obj_filename, "returned")
    /\ UNCHANGED <<reducerVars, dagVars, runA, runB, tools_present, nm_output, symbols>>

\* SILNMInvoker.get_symbols: the input file, the tool (base_args),
\* subprocess.check_output, which raises on a nonzero exit, and the pairs
\* of the lines; a line that is not two words fails the assert.
InvokeNM ==
    /\ tpc = "i_nm"
    /\ IF ~sanity_check_file_exists(input_file)
       THEN Raise(FileMissing) /\ symbols' = symbols
       ELSE IF ~_get_tool("sil-nm")
       THEN Raise(ToolMissing) /\ symbols' = symbols
       ELSE \E exit_code \in {0, 1} :
            /\ launched' = Append(launched, Launch("sil-nm", input_file, input_file, exit_code))
            /\ IF exit_code # 0
               THEN raised' = "CalledProcessError" /\ tpc' = "error" /\ symbols' = symbols
               ELSE IF \E i \in DOMAIN ParseSymbols(nm_output) : Len(ParseSymbols(nm_output)[i]) # 2
               THEN raised' = "AssertionError" /\ tpc' = "error" /\ symbols' = symbols
               ELSE raised' = raised /\ tpc' = "s_listed" /\ symbols' = ParseSymbols(nm_output)
            /\ UNCHANGED <<run_result, files_present>>
    /\ UNCHANGED <<reducerVars, dagVars, runA, runB, tools_present, nm_output>>

IsFunctionAny(s) == TRUE

\* Line 68: if s[0] == 'F'.
IsFunction(s) == s[1] = <<KIND_F>>

\* Line 68: [s[1] for s in nm.get_symbols(input_file) if s[0] == 'F'].
FunctionsOf(syms) ==
    [i \in DOMAIN SelectSeq(syms, IsFunction) |-> SelectSeq(syms, IsFunction)[i][2]]

\* Lines 68-74: the list, and the reducer constructed with it.
FunctionBugReducerFunctions ==
    /\ tpc = "s_listed"
    /\ functions' = FunctionsOf(symbols)
    /\ target' = FunctionsOf(symbols)
    /\ tpc' = "s_constructed"
    /\ UNCHANGED <<mode, granularity, phase, idx, pc, prefix, suffix, funcs, leg,
                   outcome, funclist_files, artifacts, verdict, trace, legs, fatal,
                   nfail, report, reports, runA, runB, tools_present,
                   files_present, launched, raised, run_result, nm_output, symbols,
                   dagVars>>

InitInvoke ==
    /\ IdleReducer
    /\ IdleDag
    /\ tools_present \in SUBSET Tools
    /\ files_present \in SUBSET {input_file, InitialFile, a_funclist_path,
                                  output_sib_filename}
    /\ tpc \in {"i_sil_opt", "i_extract", "i_llvm_gen", "i_nm"}
    /\ launched = <<>>
    /\ raised = "none"
    /\ run_result = NoResult
    /\ nm_output \in IF tpc = "i_nm" THEN {NmPrint(t) : t \in SymbolTables} ELSE {<<>>}
    /\ symbols = <<>>

NextInvoke ==
    \/ InvokeSILOpt
    \/ InvokeFuncExtractor
    \/ InvokeLLVMGen
    \/ InvokeNM
    \/ FunctionBugReducerFunctions

SpecInvoke == InitInvoke /\ [][NextInvoke]_vars

\* --------------------------------------------------------- build_dag.py
\* BuildDAG of utils/swift_build_support. As written the file is not accepted
\* by the interpreter, and what it would run stops at names that do not exist:
\*   - line 63 "for d in deps if d not in visitedNodes:", line 88
\*     "for n, node for enumerate(...)" and the open parenthesis of line 95
\*     are syntax errors,
\*   - lines 26, 36, 37 call isinstance(str, x), which raises a TypeError,
\*   - lines 42, 48, 55, 89 name dependencyMap and root without self,
\*   - line 64 calls worklist.push_back, line 74 appends to post_order_map
\*     where line 51 made po_ordered_nodes.
\* No call of the class gets past these. The model is of the algorithm the
\* lines spell once they are read as isinstance(x, str), self.dependencyMap,
\* self.root, "for d in deps: if d not in visitedNodes:", worklist.append,
\* po_ordered_nodes.append and "for n, node in enumerate(...)". Everything
\* else is as the interpreter executes it: the assert of line 40 has a tuple
\* as its operand, dependencyMap[node] needs an entry, the nodes a visit
\* pushes are marked visited after all of them are pushed, and reversed()
\* is an iterator that line 81 has used up before line 88 starts.
Products == {"root", "a", "b"}
root == "root"

FoundCycle == "Found cycle in build graph!"

\* set(l), and the elements union(l) adds.
set_of(l) == {l[i] : i \in DOMAIN l}

\* Line 33: self.dependencyMap = {self.root: []}.
InitDependencyMap == [n \in {root} |-> <<>>]

\* assert(e, msg): the operand is the tuple (e, msg), and a tuple that is
\* not empty is true whatever e is.
AssertHolds(operand) == Len(operand) # 0

\* dict.setdefault(key, default), of which add_edge takes the value.
setdefault(map, key, default) == IF key \in DOMAIN map THEN map[key] ELSE default

\* Lines 40-43. ("is not" compares identities; the tuple makes the
\* comparison irrelevant.)
add_edge(product, productBeingDependedOn) ==
    IF AssertHolds(<<productBeingDependedOn # root,
                     "Found dependence on root project?!">>)
    THEN /\ dependencyMap' =
                Store(dependencyMap, product,
                      Append(setdefault(dependencyMap, product, <<>>),
                             productBeingDependedOn))
         /\ UNCHANGED <<dpc, dag_raised>>
    ELSE /\ dag_raised' = "AssertionError"
         /\ dpc' = "raised"
         /\ UNCHANGED dependencyMap

\* The add_edge calls made so far: each appended one dependency.
RECURSIVE EdgeCount(_, _)
EdgeCount(map, keys) ==
    IF keys = {} THEN 0
    ELSE LET k == CHOOSE x \in keys : TRUE
         IN  Len(map[k]) + EdgeCount(map, keys \ {k})

DagAddEdge ==
    /\ dpc = "building"
    /\ EdgeCount(dependencyMap, DOMAIN dependencyMap) < MaxEdges
    /\ \E product \in Products, productBeingDependedOn \in Products :
           add_edge(product, productBeingDependedOn)
    /\ UNCHANGED <<worklist, visitedNodes, po_ordered_nodes, rpo_ordered_nodes,
                   node_to_rpot_map>>
    /\ UNCHANGED <<reducerVars, runA, runB, toolVars>>

\* Lines 48-51.
ScheduleStart ==
    /\ dpc = "building"
    /\ worklist' = <<root>>
    /\ visitedNodes' = {root}
    /\ po_ordered_nodes' = <<>>
    /\ dpc' = "loop"
    /\ UNCHANGED <<dependencyMap, rpo_ordered_nodes, node_to_rpot_map, dag_raised>>
    /\ UNCHANGED <<reducerVars, runA, runB, toolVars>>

\* Lines 54-74, one turn of the worklist loop.
ScheduleVisit ==
    /\ dpc = "loop"
    /\ worklist # <<>>
    /\ LET node == worklist[Len(worklist)]
       IN  IF node \notin DOMAIN dependencyMap
           THEN /\ dag_raised' = "KeyError"
                /\ dpc' = "raised"
                /\ UNCHANGED <<worklist, visitedNodes, po_ordered_nodes>>
           ELSE LET deps == dependencyMap[node]
                    pushed == SelectSeq(deps, LAMBDA d : d \notin visitedNodes)
                    foundUnvisitedDep == pushed # <<>>
                IN  /\ visitedNodes' = visitedNodes \cup set_of(deps)
                    /\ IF foundUnvisitedDep
                       THEN /\ worklist' = worklist \o pushed
                            /\ po_ordered_nodes' = po_ordered_nodes
                       ELSE /\ worklist' = SubSeq(worklist, 1, Len(worklist) - 1)
                            /\ po_ordered_nodes' = Append(po_ordered_nodes, node)
                    /\ UNCHANGED <<dpc, dag_raised>>
    /\ UNCHANGED <<dependencyMap, rpo_ordered_nodes, node_to_rpot_map>>
    /\ UNCHANGED <<reducerVars, runA, runB, toolVars>>

\* reversed(l): an iterator over l from its last element, at its start.
reversed(l) ==
    [items |-> [i \in 1..Len(l) |-> l[Len(l) + 1 - i]], next |-> 1]

\* What an iterator still yields, and the iterator once a loop has run
\* through it.
Rest(it) == SubSeq(it.items, it.next, Len(it.items))
UsedUp(it) == [it EXCEPT !.next = Len(it.items) + 1]

\* dict((y, x) for x, y in enumerate(seq)): enumerate counts from 0, and of
\* two pairs with the same key the later one stays.
dict_of_enumerate(seq) ==
    [y \in set_of(seq) |->
        (CHOOSE i \in DOMAIN seq :
            seq[i] = y /\ \A j \in DOMAIN seq : seq[j] = y => j <= i) - 1]

\* Lines 80-81, when the worklist is empty: the dict runs through the iterator.
ScheduleNumber ==
    /\ dpc = "loop"
    /\ worklist = <<>>
    /\ node_to_rpot_map' = dict_of_enumerate(Rest(reversed(po_ordered_nodes)))
    /\ rpo_ordered_nodes' = UsedUp(reversed(po_ordered_nodes))
    /\ dpc' = "verify"
    /\ UNCHANGED <<dependencyMap, worklist, visitedNodes, po_ordered_nodes, dag_raised>>
    /\ UNCHANGED <<reducerVars, runA, runB, toolVars>>

\* Lines 88-90: some node the loop gets to has a dependency with a smaller
\* number than its own.
CycleCheckFails(nodes, map) ==
    \E n \in DOMAIN nodes :
        \E k \in DOMAIN dependencyMap[nodes[n]] :
            map[dependencyMap[nodes[n]][k]] < n - 1

\* Lines 88-98: the loop over what the iterator still yields, then the return
\* of (rpo_ordered_nodes, node_to_rpot_map).
ScheduleVerify ==
    /\ dpc = "verify"
    /\ IF CycleCheckFails(Rest(rpo_ordered_nodes), node_to_rpot_map)
       THEN dag_raised' = FoundCycle /\ dpc' = "raised"
       ELSE dag_raised' = dag_raised /\ dpc' = "returned"
    /\ rpo_ordered_nodes' = UsedUp(rpo_ordered_nodes)
    /\ UNCHANGED <<dependencyMap, worklist, visitedNodes, po_ordered_nodes,
                   node_to_rpot_map>>
    /\ UNCHANGED <<reducerVars, runA, runB, toolVars>>

InitDag ==
    /\ IdleReducer
    /\ IdleTools
    /\ dependencyMap = InitDependencyMap
    /\ worklist = <<>>
    /\ visitedNodes = {}
    /\ po_ordered_nodes = <<>>
    /\ rpo_ordered_nodes = NoIterator
    /\ node_to_rpot_map = EmptyMap
    /\ dpc = "building"
    /\ dag_raised = "none"

NextDag ==
    \/ DagAddEdge
    \/ ScheduleStart
    \/ ScheduleVisit
    \/ ScheduleNumber
    \/ ScheduleVerify

SpecDag == InitDag /\ [][NextDag]_vars

\* ================================================================ claims
Reproduces(l) == l \in DOMAIN verdict /\ verdict[l]
Without(t, i) == SubSeq(t, 1, i - 1) \o SubSeq(t, i + 1, Len(t))
Terminated == pc \in {"done", "error"}
InTestFunclist == pc \in {"tf_write", "tf_extract", "tf_invert", "tf_tester"}
ExtractionFailed ==
    \E i \in DOMAIN trace : trace[i].op \in {"extract", "invert"} /\ trace[i].exit # 0
TesterConsulted == \E i \in DOMAIN trace : trace[i].op = "tester"
LegsOf(l) == {i \in DOMAIN legs : legs[i].leg = l}

\* C1: when the original input reproduces the anomaly, the current target
\* list reproduces it in every state of the reduction, the final one included.
AnomalyPreserved == Reproduces(functions) => Reproduces(target)

\* C2: in full ddmin mode, when the reduction has terminated, the final
\* target without any one of its elements does not reproduce the anomaly.
OneMinimal ==
    (pc = "done" /\ mode = "ddmin") =>
        \A i \in 1..Len(target) :
            \/ Without(target, i) = <<>>
            \/ /\ Without(target, i) \in DOMAIN verdict
               /\ ~verdict[Without(target, i)]

\* C3: every reduction run terminates, whatever the input list and whatever
\* the tester answers.
Terminates == <>Terminated

TerminatesWitness == pc = "done" /\ target = functions /\ Len(functions) = MaxLen

\* C4: run_test tests the suffix before the prefix; KeepSuffix is returned
\* exactly when the suffix test reproduced, the prefix is tested only after a
\* suffix test that did not reproduce (or none), KeepPrefix is returned
\* exactly when the prefix test reproduced, NoFailure otherwise; the returned
\* prefix and suffix are the arguments.
PolicyOrder ==
    /\ \A i \in LegsOf("suffix") : i = 1
    /\ \A i \in LegsOf("prefix") :
         /\ i = Len(legs)
         /\ \A j \in 1..(i - 1) : legs[j].leg = "suffix" /\ legs[j].reproduced = "no"
         /\ Len(suffix) > 0 => i = 2
    /\ pc = "returned" =>
         /\ outcome[2] = prefix /\ outcome[3] = suffix
         /\ outcome[1] = TESTRESULT_KEEPSUFFIX <=>
                legs = <<[leg |-> "suffix", reproduced |-> "yes"]>>
         /\ outcome[1] = TESTRESULT_KEEPPREFIX <=>
                (legs # <<>> /\ legs[Len(legs)] = [leg |-> "prefix", reproduced |-> "yes"])
         /\ outcome[1] = TESTRESULT_NOFAILURE <=>
                (\A i \in DOMAIN legs : legs[i].reproduced = "no")

PolicyOrderWitness ==
    /\ pc = "returned" /\ outcome[1] = TESTRESULT_KEEPPREFIX
    /\ legs = <<[leg |-> "suffix", reproduced |-> "no"],
                [leg |-> "prefix", reproduced |-> "yes"]>>

\* C5: run_test(prefix, []) never returns KeepSuffix and run_test([], suffix)
\* never returns KeepPrefix.
OutcomeWellFormed ==
    pc = "returned" =>
        /\ suffix = <<>> => outcome[1] # TESTRESULT_KEEPSUFFIX
        /\ prefix = <<>> => outcome[1] # TESTRESULT_KEEPPREFIX

OutcomeWellFormedWitness ==
    /\ pc = "returned" /\ prefix = <<>> /\ suffix # <<>>
    /\ outcome[1] = TESTRESULT_KEEPSUFFIX

\* C6: no empty list is tested: _test_funclist never runs on a list of
\* length 0, so no funclist file holds one and neither the extractor nor the
\* tester is run for one.
EmptyNeverTested ==
    /\ InTestFunclist => Len(funcs) > 0
    /\ trace # <<>> => Len(funcs) > 0
    /\ \A p \in DOMAIN funclist_files : Len(funclist_files[p]) > 0
    /\ \A i \in DOMAIN legs : Len(LegList(legs[i].leg)) > 0

EmptyNeverTestedWitness ==
    /\ pc = "returned" /\ suffix = <<>> /\ prefix # <<>>
    /\ Len(legs) = 1 /\ TesterConsulted

\* C7: when the extractor exits nonzero during an oracle call, the reduction
\* aborts with a fatal error: the tester is not consulted for that candidate
\* and run_test returns nothing.
ExtractionFailureIsFatal ==
    ExtractionFailed => (pc = "error" /\ ~TesterConsulted /\ outcome = NoOutcome)

\* C8: once a fatal error is raised the run is in its error state with no
\* result, and nothing happens after it: no oracle call, no change of the
\* target list.
FatalPropagates ==
    /\ [](fatal # "none" => (pc = "error" /\ outcome = NoOutcome))
    /\ [][fatal # "none" => UNCHANGED <<target, prefix, suffix, funcs, trace>>]_vars

FatalPropagatesWitness ==
    /\ fatal # "none" /\ pc = "error"
    /\ phase = "chunks" /\ idx < NumChunks /\ target # functions

\* C9: two tested lists of different content get different names: a funclist
\* file is never written over one that holds another list.
CollisionFreeNaming ==
    (pc = "tf_write" /\ funclist_path \in DOMAIN funclist_files) =>
        funclist_files[funclist_path] = FunclistText(funcs)

\* C10: two runs with the same exit class, stdout and stderr have the same
\* fingerprint, and two runs of different exit class never do.
ExitClass(r) == r.exit_code = 0
FingerprintDistinct ==
    (runA.ran /\ runB.ran) =>
        /\ (ExitClass(runA) = ExitClass(runB) /\ runA.stdout = runB.stdout
                /\ runA.stderr = runB.stderr)
             => runA.result.fingerprint = runB.result.fingerprint
        /\ ExitClass(runA) # ExitClass(runB)
             => runA.result.fingerprint # runB.result.fingerprint

FingerprintDistinctWitness ==
    /\ runA.ran /\ runB.ran
    /\ runA.exit_code = 0 /\ runB.exit_code # 0
    /\ runA.stdout = runB.stdout /\ runA.stderr = runB.stderr
    /\ runA.stdout # <<>>

\* s is t with some elements left out, the others in t's order.
IsSubsequence(s, t) ==
    \E f \in [1..Len(s) -> 1..Len(t)] :
        /\ \A i, j \in 1..Len(s) : i < j => f[i] < f[j]
        /\ \A i \in 1..Len(s) : s[i] = t[f[i]]

\* A step that takes a chunk or a complement as the new target.
SuccessfulReduction ==
    /\ pc = "returned" /\ pc' = "engine"
    /\ outcome[1] \in {TESTRESULT_KEEPPREFIX, TESTRESULT_KEEPSUFFIX}

\* C11: the target list never grows: no step makes it longer, every step
\* that accepts a chunk or a complement makes it shorter, and every target
\* is a sub-sequence of the original list, in the original order.
TargetNeverGrows ==
    /\ [](IsSubsequence(target, functions))
    /\ [][/\ Len(target') <= Len(target)
          /\ SuccessfulReduction => Len(target') < Len(target)]_vars

TargetNeverGrowsWitness ==
    /\ pc = "engine" /\ Len(functions) = MaxLen /\ Len(target) = 1
    /\ outcome[1] = TESTRESULT_KEEPSUFFIX

Elements(l) == {l[i] : i \in DOMAIN l}

\* What the oracle has reported is what an oracle reports that finds the
\* anomaly exactly in the lists that contain c.
OracleIsContains(c) == \A r \in reports : r[2] = (c \in Elements(r[1]))

\* C12: when the oracle reports the anomaly exactly on the tested lists that
\* contain one element c of the input, a reduction that ends ends with the
\* target [c].
ConvergesToSingle ==
    \A c \in Elements(functions) :
        (pc \in {"done", "reported"} /\ OracleIsContains(c)) => target = <<c>>

ConvergesToSingleWitness ==
    /\ pc = "done" /\ Len(functions) = MaxLen /\ mode = "ddmin"
    /\ OracleIsContains(functions[MaxLen]) /\ target = <<functions[MaxLen]>>
    /\ Cardinality(reports) >= 2

\* The oracle has reported the anomaly for none of the lists tested.
NeverReported == \A r \in reports : ~r[2]

\* C13: when the oracle reports the anomaly for no tested sublist, the
\* target stays the original list, no exception comes of it (the run only
\* stops on a fatal configuration error, which leaves no report), and the
\* run that ends reports the exhaustion: the failure message, then the
\* original list as the final functions.
ExhaustionReported ==
    NeverReported =>
        /\ target = functions
        /\ pc = "error" => (fatal # "none" /\ report = <<>>)
        /\ pc = "reported" =>
             /\ fatal = "none"
             /\ report # <<>>
             /\ report[1] = Line("Failed to find miscompiling pass list!", <<>>)
             /\ report[Len(report) - 1] = Line("*** Final Functions: %s", functions)

ExhaustionReportedWitness ==
    /\ pc = "reported" /\ NeverReported /\ Len(functions) = MaxLen
    /\ Cardinality(reports) >= MaxLen

\* The launch of the base case, and the steps that come with a reduction:
\* the extractor and what follows its construction, the symbol listing, the
\* reducer.
IsBaseRun(l) == l.tool = "sil-opt" /\ l.input = InitialFile /\ l.output = BaseCaseFile
BaseRunExited(codes) ==
    \E i \in DOMAIN launched : IsBaseRun(launched[i]) /\ launched[i].exit \in codes
ReductionStarted ==
    \/ tpc \in {"d_extractor", "d_call"}
    \/ raised = "NameError"
    \/ Cardinality({i \in DOMAIN launched : launched[i].tool = "mkdir"}) > 1
    \/ \E i \in DOMAIN launched : launched[i].tool \in {"sil-nm", "sil-func-extractor"}
    \/ symbols # <<>>
    \/ pc # "engine"

\* C14: the driver runs the base case before any step of a reduction: the
\* extractor, the symbol listing, the reducer and its oracle calls come only
\* after a base run that exited nonzero, only the work dir and the initial
\* *.sib of the unreduced input come before the base run, and after a base
\* run that exited 0 the driver returns with the base run its last launch.
BaseCaseFirst ==
    /\ ReductionStarted => BaseRunExited({1})
    /\ \A i \in DOMAIN launched :
         (\A j \in 1..i : ~IsBaseRun(launched[j])) =>
            \/ launched[i].tool = "mkdir"
            \/ launched[i].tool = "sil-opt" /\ launched[i].input = input_file
    /\ (BaseRunExited({0}) /\ tpc # "d_check") =>
         /\ tpc = "returned" /\ raised = "none"
         /\ IsBaseRun(launched[Len(launched)])

BaseCaseFirstWitness ==
    /\ raised = "NameError" /\ BaseRunExited({1}) /\ Len(launched) = 4

Ran(tool, codes) ==
    \E i \in DOMAIN launched : launched[i].tool = tool /\ launched[i].exit \in codes

\* C15: in SwiftOptCompileInvoker.invoke_with_passlist an optimizer run that
\* exits nonzero raises, with neither the code generation nor the run script
\* launched; a code generation that exits nonzero raises, with the run script
\* not launched; a result is returned only after both exited 0, and it is
\* the result of the run script.
SetupFailureIsFatal ==
    /\ (Ran("sil-opt", {1}) /\ tpc # "c_check_opt") =>
         /\ raised = OptimizerCrasher /\ tpc = "error"
         /\ ~Ran("sil-llvm-gen", {0, 1}) /\ ~Ran("run_script", {0, 1})
    /\ (Ran("sil-llvm-gen", {1}) /\ tpc # "c_check_llvm_gen") =>
         /\ raised = LLVMGenCrasher /\ tpc = "error"
         /\ ~Ran("run_script", {0, 1})
    /\ raised # "none" => tpc = "error"
    /\ tpc = "returned" =>
         /\ Ran("sil-opt", {0}) /\ Ran("sil-llvm-gen", {0})
         /\ launched[Len(launched)].tool = "run_script"
         /\ run_result = <<call_fingerprint(launched[Len(launched)].exit, <<>>, <<>>)>>

SetupFailureIsFatalWitness ==
    /\ raised = LLVMGenCrasher /\ Ran("sil-opt", {0}) /\ Ran("sil-llvm-gen", {1})

\* The tool and the files a call of an invoker needs.
Asked == tpc \in {"i_sil_opt", "i_extract", "i_llvm_gen", "i_nm"}
NeededTool ==
    CASE tpc = "i_sil_opt" -> "sil-opt"
      [] tpc = "i_extract" -> "sil-func-extractor"
      [] tpc = "i_llvm_gen" -> "sil-llvm-gen"
      [] OTHER -> "sil-nm"
NeededFiles ==
    CASE tpc = "i_sil_opt" -> {InitialFile}
      [] tpc = "i_extract" -> {input_file, a_funclist_path}
      [] tpc = "i_llvm_gen" -> {output_sib_filename}
      [] OTHER -> {input_file}
SomethingMissing ==
    NeededTool \notin tools_present \/ ~(NeededFiles \subseteq files_present)

CandidatesAreFunctions ==
    tpc = "s_constructed" =>
        /\ target = functions
        /\ \E f \in [DOMAIN functions -> DOMAIN symbols] :
             /\ \A i, j \in DOMAIN functions : i < j => f[i] < f[j]
             /\ {f[i] : i \in DOMAIN functions} =
                    {k \in DOMAIN symbols : symbols[k][1] = <<KIND_F>>}
             /\ \A i \in DOMAIN functions : functions[i] = symbols[f[i]][2]

CandidatesAreFunctionsWitness ==
    /\ tpc = "s_constructed" /\ Len(symbols) = MaxLen /\ Len(functions) = MaxLen - 1
    /\ symbols[1][1] = <<KIND_F>> /\ symbols[2][1] = <<KIND_G>>
    /\ NmPrint(symbols) = nm_output

\* A step that ends a call of run_test with this result, and a step that
\* ends a round in which nothing reproduced.
Accepts(kept) == pc = "returned" /\ pc' = "engine" /\ outcome[1] = kept
EndsRound == pc = "engine" /\ pc' = "engine" /\ RoundOver

HalfMinimal ==
    mode = "twoway" =>
        /\ granularity = 2
        /\ (pc \in {"done", "reported"} /\ Len(target) >= 2) =>
             \A h \in {1, 2} :
                 /\ Chunk(target, 2, h) \in DOMAIN verdict
                 /\ ~verdict[Chunk(target, 2, h)]

\* The steps of one call of _test_funclist, in their order.
TestSteps == <<"write", "extract", "invert", "tester">>

\* C20: one call of _test_funclist writes the funclist file, one element
\* per line in the order of the list, then runs the extractor on that file
\* without -invert into the <hash> artifact, then on the same file with
\* -invert into the <hash>_invert artifact, and only then calls the tester,
\* with these two artifacts; the two artifacts are different files.
StepOrder ==
    /\ Len(trace) <= Len(TestSteps)
    /\ \A i \in DOMAIN trace : trace[i].op = TestSteps[i]
    /\ Len(trace) >= 1 =>
         /\ trace[1].args = <<FunclistPath(get_funclist_hash(funcs))>>
         /\ split(funclist_files[trace[1].args[1]], NEWLINE) = Append(funcs, <<>>)
    /\ Len(trace) >= 2 =>
         trace[2].args = <<trace[1].args[1],
                           <<"input_", <<get_funclist_hash(funcs), "">>, ".sib">>,
                           FALSE>>
    /\ Len(trace) >= 3 =>
         /\ trace[3].args = <<trace[1].args[1],
                              <<"input_", <<get_funclist_hash(funcs), "_invert">>, ".sib">>,
                              TRUE>>
         /\ trace[3].args[2] # trace[2].args[2]
    /\ Len(trace) >= 4 =>
         trace[4].args = <<trace[2].args[2], trace[3].args[2]>>

StepOrderWitness ==
    /\ pc = "returned" /\ Len(trace) = Len(TestSteps) /\ Len(funcs) = MaxLen - 1
    /\ trace[2].exit = 0 /\ trace[3].exit = 0

\* The dependency graph of a BuildDAG: the nodes root reaches along
\* dependencies, and whether a cycle is among them.
DepsOf(n) == IF n \in DOMAIN dependencyMap THEN set_of(dependencyMap[n]) ELSE {}
RECURSIVE ReachFrom(_, _)
ReachFrom(S, k) ==
    IF k = 0 THEN S ELSE ReachFrom(S \cup UNION {DepsOf(n) : n \in S}, k - 1)
ReachableNodes == ReachFrom({root}, Cardinality(Products))
OnCycle(n) ==
    n \in ReachFrom(UNION {DepsOf(d) : d \in {n}}, Cardinality(Products))
GraphHasCycle == \E n \in ReachableNodes : OnCycle(n)
ScheduleEnded == dpc \in {"returned", "raised"}
\* The ordering the caller gets: what the returned rpo_ordered_nodes yields.
ReturnedOrdering == Rest(rpo_ordered_nodes)
Occurrences(l, n) == Cardinality({i \in DOMAIN l : l[i] = n})

\* C21: for an acyclic dependency graph produce_schedule returns, and the
\* ordering it returns holds every node reachable from the root exactly once,
\* starts with the root, and numbers every node below each of its
\* dependencies.
TopologicalSchedule ==
    (ScheduleEnded /\ ~GraphHasCycle) =>
        /\ dpc = "returned"
        /\ \A n \in Products :
               Occurrences(ReturnedOrdering, n) = IF n \in ReachableNodes THEN 1 ELSE 0
        /\ ReturnedOrdering[1] = root
        /\ \A n \in ReachableNodes : \A d \in DepsOf(n) :
               node_to_rpot_map[n] < node_to_rpot_map[d]

\* C22: produce_schedule ends with the 'Found cycle in build graph!' error
\* exactly when the graph reachable from the root has a cycle, and so returns
\* no schedule for a cyclic graph.
CycleDetectionExact ==
    ScheduleEnded => ((dag_raised = FoundCycle) <=> GraphHasCycle)

\* C23: the root has an entry in dependencyMap and is in no node's
\* dependency list, whatever add_edge calls were made.
RootNeverDependedOn ==
    dpc # "idle" =>
        /\ root \in DOMAIN dependencyMap
        /\ \A n \in DOMAIN dependencyMap : root \notin set_of(dependencyMap[n])

\* C24: no node is pushed on the worklist twice (every push is still on the
\* worklist or has moved to the post order), and the worklist loop is left
\* only with an empty worklist.
TraversalTerminates ==
    /\ \A n \in Products :
           Occurrences(worklist, n) + Occurrences(po_ordered_nodes, n) <= 1
    /\ dpc \in {"verify", "returned", "raised"} => worklist = <<>>

\* C25: the fingerprint depends only on the exit class and on the bytes of
\* stdout followed by those of stderr: two runs that agree on both have the
\* same fingerprint, whatever their nonzero exit codes are and wherever the
\* bytes are split between the two streams; the exit_code returned is the
\* exit code of the process itself.
FingerprintOfClassAndBytes ==
    (runA.ran /\ runB.ran) =>
        /\ (ExitClass(runA) = ExitClass(runB)
                /\ runA.stdout \o runA.stderr = runB.stdout \o runB.stderr)
             => runA.result.fingerprint = runB.result.fingerprint
        /\ runA.result.exit_code = runA.exit_code
        /\ runB.result.exit_code = runB.exit_code

FingerprintOfClassAndBytesWitness ==
    /\ runA.ran /\ runB.ran
    /\ runA.exit_code # 0 /\ runB.exit_code # 0 /\ runA.exit_code # runB.exit_code
    /\ runA.stdout # <<>> /\ runA.stderr = <<>>
    /\ runB.stdout = <<>> /\ runB.stderr = runA.stdout
    /\ runA.result.fingerprint = runB.result.fingerprint
    /\ runA.result.exit_code # runB.result.exit_code

\* C26: once reduce_list has returned, function_bug_reducer prints the final
\* report whether or not a reduction was found: its next step is the report,
\* it can always take it, and what is printed is the failure message when no
\* reduction was found, then the success banner, the final file, the
\* reducer's target list and the command line for the original pass list.
ExpectedReport ==
    (IF target = functions
     THEN <<Line("Failed to find miscompiling pass list!", <<>>)>> ELSE <<>>)
    \o <<Line("*** Successfully Reduced file!", <<>>),
         Line("*** Final File: %s", TesterResult),
         Line("*** Final Functions: %s", target),
         Line("*** Repro command line: %s", TesterCmdline(pass_list))>>
FinalReportUnconditional ==
    /\ [](pc = "done" => (fatal = "none" /\ ENABLED FunctionBugReducerReport))
    /\ [][pc = "done" => (pc' = "reported" /\ report' = ExpectedReport)]_vars
    /\ [](pc = "reported" => report = ExpectedReport)
    /\ [](report # <<>> => pc = "reported")

FinalReportUnconditionalWitness ==
    /\ pc = "reported" /\ target # functions /\ Len(functions) = MaxLen
    /\ Len(report) = 4
    /\ report[3] = Line("*** Final Functions: %s", target)

====
